---- MODULE Spec2Model ----
(***************************************************************************)
(* Model of the Scraper_Meli ingestion pipeline:                           *)
(*   - ejecutar_proceso_para_url (guard, crawl, enrich, insert)            *)
(*       src/scraping/procesador_datos.py                                  *)
(*   - extraer_competidores_catalogo (paginated crawl)                     *)
(*       src/scraping/scraper_producto_catalogo.py                         *)
(*   - ejecutar_generacion_kpis (daily KPI snapshot, upsert)               *)
(*       src/analysis/generador_kpis.py                                    *)
(*   - main (the pipeline run: every URL, then the KPI phase)              *)
(*       src/main.py                                                       *)
(*   - obtener_cuotas_sin_interes (the installments parser)                *)
(*       src/scraping/procesador_datos.py                                  *)
(* The specifications share one set of variables: SpecIngest, SpecCrawl,  *)
(* SpecKpi, SpecMain, SpecCuotas and SpecPuntaje (parser, enricher and     *)
(* aggregator in a row).  Each one pins the variables it does not use.     *)
(***************************************************************************)
EXTENDS Integers, Sequences, FiniteSets, TLC

VARIABLES
    today,              \* the calendar day (date.today(), datetime.now().date(), CURRENT_DATE)
    tabla_crudos,       \* the raw-offer table: sequence of rows, in insertion (serial id) order
    pc,                 \* per caller: position inside ejecutar_proceso_para_url
    ncalls,             \* per caller: calls of ejecutar_proceso_para_url started so far
    llamada,            \* per caller: what the current (or last) call did
    previa,             \* per caller: what the call before that one did
    datos,              \* per caller: the tuple returned by the crawler, held between crawl and insert
    cr_pc,              \* crawler: position inside extraer_competidores_catalogo
    paso,               \* crawler: index of the set-up statement about to run (lines 86-116)
    browser,            \* crawler: "none" | "open" | "closed"
    raised,             \* crawler: TRUE when an exception left the function
    numero_pagina,      \* crawler: the page about to be requested
    vendedores_totales, \* crawler: offers accumulated so far
    cr_meta,            \* crawler: [nombre, cat_principal, cat_secundaria]
    served,             \* crawler: what the site answered to each page request, in order
    log,                \* crawler: page requests, pacing sleeps and warnings, in order
    tabla_kpis,         \* the KPI table: set of rows, keyed by (fecha, id_catalogo)
    kpi_run,            \* last aggregation run: its outcome and the raw rows it read
    principal,          \* main(): its position and the shuffled list of URLs
    cuotas              \* the payment text given to obtener_cuotas_sin_interes and its result

ingestVars == <<pc, ncalls, llamada, previa, datos>>
crawlVars == <<cr_pc, paso, browser, raised, numero_pagina, vendedores_totales, cr_meta, served, log>>
kpiVars == <<tabla_kpis, kpi_run>>
vars == <<today, tabla_crudos, ingestVars, crawlVars, kpiVars, principal, cuotas>>

None == "None"

\* a float: Num(v) is the number v; the parser's missing price and pandas' NaN
\* are kept apart from every number
Num(v) == <<v>>
SinPrecio == <<>>
NaN == <<0, 0>>

\* a stored flag (a nullable BOOLEAN column): Flag(b) is the boolean b, kept apart
\* from SQL NULL
Flag(b) == <<b>>
SinFlag == <<>>

-----------------------------------------------------------------------------
(* Bounds *)

\* days of the calendar the model runs through
MaxDay == 2
\* calls of ejecutar_proceso_para_url each caller makes
MaxCalls == 2
\* pages with offers the site serves at most (page MaxPages + 1 is empty or fails)
MaxPages == 5
\* rows the raw-offer table holds at most while the aggregator is studied
MaxFilas == 3
\* phrases put together into one payment text
MaxFrases == 3

Days == 1..MaxDay

-----------------------------------------------------------------------------
(* Shared helpers *)

RECURSIVE Concat(_)
Concat(ss) == IF ss = <<>> THEN <<>> ELSE Head(ss) \o Concat(Tail(ss))

Range(s) == {s[i] : i \in 1..Len(s)}

\* pinned values of the variables a specification does not use
CrawlIdle ==
    /\ cr_pc = "off" /\ paso = 0 /\ browser = "none" /\ raised = FALSE
    /\ numero_pagina = 0 /\ vendedores_totales = <<>>
    /\ cr_meta = [nombre |-> None, cat_principal |-> None, cat_secundaria |-> None]
    /\ served = <<>> /\ log = <<>>

KpiIdle == tabla_kpis = {} /\ kpi_run = [estado |-> "none", leidas |-> <<>>, fecha |-> 0, antes |-> {}]

MainIdle == principal = [pc |-> "off", urls |-> <<>>]

CuotasIdle == cuotas = [pc |-> "off", texto |-> [tipo |-> "str", toks |-> <<>>], resultado |-> 0]

-----------------------------------------------------------------------------
(* Ingestion guard and enricher: src/scraping/procesador_datos.py *)

Procs == {"p1", "p2"}

CatalogIds == {"MLA1", "MLA2"}

\* a URL is its sequence of path segments; the pattern /p/(MLA\d+) looks for a
\* segment "p" followed by a segment that starts with a catalog id
Urls == { <<"producto", "p", "MLA1">>, <<"otro", "p", "MLA2", "s">>, <<"producto", "up", "MLA1">> }

\* positions of the url where the pattern matches
MatchPositions(url) == {i \in 1..(Len(url) - 1) : url[i] = "p" /\ url[i + 1] \in CatalogIds}

\* a pattern without the /p/ prefix: any segment that is a catalog id matches
extraer_id_producto_sin_p(url) ==
    IF {i \in 1..Len(url) : url[i] \in CatalogIds} = {} THEN None
    ELSE url[CHOOSE j \in 1..Len(url) :
                /\ url[j] \in CatalogIds
                /\ \A k \in 1..Len(url) : url[k] \in CatalogIds => j <= k]

extraer_id_producto(url) ==
    IF MatchPositions(url) = {} THEN None
    ELSE LET i == CHOOSE j \in MatchPositions(url) : \A k \in MatchPositions(url) : j <= k
         IN url[i + 1]

\* a parsed offer as the crawler returns it (the fields the pipeline stores);
\* the item of offer 2 had no price component, so its precio is still the None
\* of line 19
Of(i) == [item_id |-> i, precio |-> IF i = 2 THEN SinPrecio ELSE Num(100),
          nombre_vendedor |-> "S", reputacion_vendedor |-> "5_green", envio_full |-> FALSE]

MetaFull == [nombre |-> "N", cat_principal |-> "C1", cat_secundaria |-> "C2"]
MetaNone == [nombre |-> None, cat_principal |-> None, cat_secundaria |-> None]

\* what one crawl can hand back to ejecutar_proceso_para_url
CrawlReturns ==
    [raise : {FALSE}, vendedores : {<<>>}, meta : {MetaNone}]
    \cup [raise : {FALSE},
          vendedores : {<<Of(2)>>, <<Of(1), Of(3)>>, <<Of(1), Of(1)>>},
          meta : {MetaFull, MetaNone}]

\* ... or the exception that leaves it
CrawlOutcomes == CrawlReturns \cup [raise : {TRUE}, vendedores : {<<>>}, meta : {MetaNone}]

NoDatos == [raise |-> FALSE, vendedores |-> <<>>, meta |-> MetaNone]

\* SELECT EXISTS (SELECT 1 FROM tabla WHERE id_catalogo = %s AND fecha_extraccion = %s)
ExisteFila(tabla, id_producto, fecha) ==
    \E i \in 1..Len(tabla) :
        tabla[i].id_catalogo = id_producto /\ tabla[i].fecha_extraccion = fecha

\* a check whose query reads fecha_extraccion > %s: never finds today's rows
producto_ya_scrapeado_hoy_despues(id_producto, fecha, tabla, db_ok) ==
    /\ db_ok
    /\ \E i \in 1..Len(tabla) :
          tabla[i].id_catalogo = id_producto /\ tabla[i].fecha_extraccion > fecha

\* a check that answers 'present' whenever the query ran (the fetched tuple is truthy)
producto_ya_scrapeado_hoy_tuple(id_producto, fecha, tabla, db_ok) == db_ok

\* a check that answers 'present' when its query failed
producto_ya_scrapeado_hoy_cerrado(id_producto, fecha, tabla, db_ok) ==
    IF db_ok THEN ExisteFila(tabla, id_producto, fecha) ELSE TRUE

\* db_ok = FALSE: psycopg2.Error while checking; the function answers False
producto_ya_scrapeado_hoy(id_producto, fecha, tabla, db_ok) ==
    IF db_ok THEN ExisteFila(tabla, id_producto, fecha) ELSE FALSE

\* df['precio'].astype(float): None becomes NaN
ToFloat(x) == IF x = SinPrecio THEN NaN ELSE x

\* a map keyed by the names of the tiers: no level of the site is a key
reputacion_map_por_nombre(r) ==
    CASE r = "platinum" -> "MercadoLider Platinum"
      [] r = "gold" -> "MercadoLider Gold"
      [] r = "lider" -> "MercadoLider"
      [] OTHER -> "Regular"

\* reputacion_map and .map(...).fillna('Regular') (lines 103-108)
reputacion_map(r) ==
    CASE r = "5_green" -> "MercadoLider Platinum"
      [] r = "4_light_green" -> "MercadoLider Gold"
      [] r = "3_yellow" -> "MercadoLider"
      [] OTHER -> "Regular"

\* the enrichment of procesar_y_enriquecer_datos: one row per offer
Enriquecer(d, id_producto, fecha) ==
    [i \in 1..Len(d.vendedores) |->
        [fecha_extraccion |-> fecha,
         id_catalogo |-> id_producto,
         nombre_producto |-> d.meta.nombre,
         categoria_principal |-> d.meta.cat_principal,
         categoria_secundaria |-> d.meta.cat_secundaria,
         item_id |-> d.vendedores[i].item_id,
         nombre_vendedor |-> d.vendedores[i].nombre_vendedor,
         precio |-> ToFloat(d.vendedores[i].precio),
         envio_full |-> Flag(d.vendedores[i].envio_full),
         reputacion_vendedor |-> reputacion_map(d.vendedores[i].reputacion_vendedor)]]

\* a table without the constraint: every INSERT is accepted
ViolaUnique_sin_restriccion(tabla, fila) == FALSE

\* UNIQUE(fecha_extraccion, item_id)
ViolaUnique(tabla, fila) ==
    \E i \in 1..Len(tabla) :
        tabla[i].fecha_extraccion = fila.fecha_extraccion /\ tabla[i].item_id = fila.item_id

\* INSERT ... ON CONFLICT DO NOTHING: a rejected row is left out and the
\* transaction goes on
RECURSIVE InsertarFilas_salta(_, _)
InsertarFilas_salta(tabla, filas) ==
    IF filas = <<>> THEN [ok |-> TRUE, tabla |-> tabla]
    ELSE IF ViolaUnique(tabla, Head(filas)) THEN InsertarFilas_salta(tabla, Tail(filas))
    ELSE InsertarFilas_salta(Append(tabla, Head(filas)), Tail(filas))

\* the INSERTs of one transaction, row by row; the first rejected row aborts it
RECURSIVE InsertarFilas(_, _)
InsertarFilas(tabla, filas) ==
    IF filas = <<>> THEN [ok |-> TRUE, tabla |-> tabla]
    ELSE IF ViolaUnique(tabla, Head(filas)) THEN [ok |-> FALSE, tabla |-> tabla]
    ELSE InsertarFilas(Append(tabla, Head(filas)), Tail(filas))

\* the record of one call: the id and the date it checked, whether rows for them
\* were stored when it started, and the outcome of its check, crawl and insert
\* (fins: the extraction date of the rows it committed)
NuevaLlamada(id, fecha, pre) ==
    [id |-> id, fecha |-> fecha, pre |-> pre, chk |-> "-", crawl |-> "-", ins |-> "-", fins |-> 0]

SinLlamada == NuevaLlamada(None, 0, FALSE)

\* what is kept of a call once the next one starts
Resumen(r) == [r EXCEPT !.pre = FALSE, !.chk = "-"]

\* calls each caller makes: p1 is the pipeline run, p2 a second, concurrent run
Calls(p) == IF p = "p1" THEN MaxCalls ELSE 1

\* lines 151-156: extract the id, read date.today()
Start(p, url) ==
    /\ pc[p] = "idle"
    /\ ncalls[p] < Calls(p)
    /\ ncalls' = [ncalls EXCEPT ![p] = @ + 1]
    /\ previa' = [previa EXCEPT ![p] = Resumen(llamada[p])]
    /\ LET id == extraer_id_producto(url) IN
         IF id = None
         THEN /\ llamada' = [llamada EXCEPT ![p] = SinLlamada]
              /\ pc' = pc
         ELSE /\ llamada' = [llamada EXCEPT ![p] =
                               NuevaLlamada(id, today, ExisteFila(tabla_crudos, id, today))]
              /\ pc' = [pc EXCEPT ![p] = "check"]
    /\ UNCHANGED <<cuotas, principal, today, tabla_crudos, datos, crawlVars, kpiVars>>

\* lines 156-157 with producto_ya_scrapeado_hoy (58-84)
Check(p, db_ok) ==
    /\ pc[p] = "check"
    /\ LET existe == producto_ya_scrapeado_hoy(llamada[p].id, llamada[p].fecha, tabla_crudos, db_ok) IN
         /\ llamada' = [llamada EXCEPT ![p].chk =
                           IF ~db_ok THEN "dberr" ELSE IF existe THEN "yes" ELSE "no"]
         /\ pc' = [pc EXCEPT ![p] = IF existe THEN "idle" ELSE "crawl"]
    /\ UNCHANGED <<cuotas, principal, today, tabla_crudos, ncalls, previa, datos, crawlVars, kpiVars>>

\* a caller that takes every result of the crawler as offers to store
HayDatos_siempre(datos_vendedores) == TRUE

\* if datos_vendedores: (line 169), and again if not datos_extraidos: (line 89)
HayDatos(datos_vendedores) == datos_vendedores # <<>>

\* line 164 and the test of line 169; the crawler itself is SpecCrawl
Crawl(p, ret) ==
    /\ pc[p] = "crawl"
    /\ IF ret.raise
       THEN /\ llamada' = [llamada EXCEPT ![p].crawl = "raise"]
            /\ pc' = [pc EXCEPT ![p] = "idle"]
            /\ datos' = datos
       ELSE IF ~HayDatos(ret.vendedores)
       THEN /\ llamada' = [llamada EXCEPT ![p].crawl = "none"]
            /\ pc' = [pc EXCEPT ![p] = "idle"]
            /\ datos' = datos
       ELSE /\ llamada' = [llamada EXCEPT ![p].crawl = "offers"]
            /\ pc' = [pc EXCEPT ![p] = "insert"]
            /\ datos' = [datos EXCEPT ![p] = ret]
    /\ UNCHANGED <<cuotas, principal, today, tabla_crudos, ncalls, previa, crawlVars, kpiVars>>

\* a connection in autocommit mode: every accepted row stays, also the rows
\* before the one that was rejected
Commit_por_fila(tabla, res) == res.tabla

\* a write that replaces the table by the batch (if_exists = 'replace')
Commit_reemplaza(tabla, res) ==
    IF res.ok THEN SubSeq(res.tabla, Len(tabla) + 1, Len(res.tabla)) ELSE tabla

\* a batch insert that reports success and never commits
Commit_olvidado(tabla, res) == tabla

\* conn.commit() (line 139) or the rollback of the with-block on psycopg2.Error
Commit(tabla, res) == IF res.ok THEN res.tabla ELSE tabla

\* what procesar_y_enriquecer_datos hands back to its caller for each outcome of
\* the insert: the bare return of line 142 in the handler of psycopg2.Error, or
\* the end of the function after line 145; no exception leaves it either way
RetornoProcesar(ins) == None

\* procesar_y_enriquecer_datos (87-145): enrich with datetime.now().date(), insert in one transaction
Persist(p, db_ok) ==
    /\ pc[p] = "insert"
    /\ LET filas == Enriquecer(datos[p], llamada[p].id, today)
           res == IF db_ok THEN InsertarFilas(tabla_crudos, filas)
                  ELSE [ok |-> FALSE, tabla |-> tabla_crudos]
       IN /\ tabla_crudos' = Commit(tabla_crudos, res)
          /\ llamada' = [llamada EXCEPT ![p] =
                           [@ EXCEPT !.ins = IF res.ok THEN "ok" ELSE IF db_ok THEN "dup" ELSE "dberr",
                                     !.fins = IF res.ok THEN today ELSE 0]]
    /\ pc' = [pc EXCEPT ![p] = "idle"]
    /\ datos' = [datos EXCEPT ![p] = NoDatos]
    /\ UNCHANGED <<cuotas, principal, today, ncalls, previa, crawlVars, kpiVars>>

\* midnight
Tick ==
    /\ today < MaxDay
    /\ today' = today + 1
    /\ UNCHANGED <<cuotas, principal, tabla_crudos, ingestVars, crawlVars, kpiVars>>

InitIngest ==
    /\ today = 1
    /\ tabla_crudos = <<>>
    /\ pc = [p \in Procs |-> "idle"]
    /\ ncalls = [p \in Procs |-> 0]
    /\ llamada = [p \in Procs |-> SinLlamada]
    /\ previa = [p \in Procs |-> SinLlamada]
    /\ datos = [p \in Procs |-> NoDatos]
    /\ CrawlIdle
    /\ KpiIdle
    /\ MainIdle
    /\ CuotasIdle

NextIngest ==
    \/ \E p \in Procs, url \in Urls : Start(p, url)
    \/ \E p \in Procs, db_ok \in BOOLEAN : Check(p, db_ok)
    \/ \E p \in Procs, ret \in CrawlOutcomes : Crawl(p, ret)
    \/ \E p \in Procs, db_ok \in BOOLEAN : Persist(p, db_ok)
    \/ Tick

SpecIngest == InitIngest /\ [][NextIngest]_vars


-----------------------------------------------------------------------------
(* Catalog crawler: src/scraping/scraper_producto_catalogo.py *)

\* the price component of an item: absent, or present with a numeric value, with
\* no value, or with a value that is not a number
PrecioComp(k, v) == [k |-> k, v |-> v]

\* one item of components.results.items: its id, its price component and the
\* reputation_level of its seller component (None when it has none)
It(id, price, rep) == [id |-> id, price |-> price, rep |-> rep]

OkPrice == PrecioComp("num", 100)

\* float(componente.get("price", {}).get("value")): TypeError on a missing value,
\* ValueError on text
PrecioLanza(item) == item.price.k \in {"null", "text"}

\* _parsear_vendedor (lines 11-58), for an item whose price converts
_parsear_vendedor(item, full_filment_data) ==
    [item_id |-> item.id,
     precio |-> IF item.price.k = "num" THEN Num(item.price.v) ELSE SinPrecio,
     nombre_vendedor |-> "S",
     reputacion_vendedor |-> IF item.rep \notin {None, ""} THEN item.rep ELSE "Sin reputacion",
     envio_full |-> item.id \in full_filment_data]

\* line 173: the list comprehension over the items of the page
ParsearPagina(resp) ==
    [i \in 1..Len(resp.items) |-> _parsear_vendedor(resp.items[i], resp.full)]

PaginaLanza(resp) == \E i \in 1..Len(resp.items) : PrecioLanza(resp.items[i])

Pagina(items, full) == [tipo |-> "page", items |-> items, full |-> full]

PaginaVacia == Pagina(<<>>, {})
Timeout == [tipo |-> "timeout", items |-> <<>>, full |-> {}]
ErrorNav == [tipo |-> "error", items |-> <<>>, full |-> {}]

\* pages with offer items the site can serve
PaginasConItems ==
    { Pagina(<<It(1, OkPrice, "5_green")>>, {1}),
      Pagina(<<It(2, OkPrice, None), It(3, PrecioComp("absent", 0), "3_yellow")>>, {}),
      Pagina(<<It(4, OkPrice, "4_light_green"), It(5, PrecioComp("null", 0), None),
               It(6, OkPrice, None)>>, {}) }

\* what the site can answer to the request of page n
Respuestas(n) ==
    {PaginaVacia, Timeout, ErrorNav} \cup (IF n <= MaxPages THEN PaginasConItems ELSE {})

\* the statements between the launch and the try block (lines 86-116)
SetupSteps == <<"new_context", "add_cookies", "new_page", "set_extra_http_headers",
                "apply_stealth", "route">>

\* what the product page can hold: a title or none, the category path and the
\* breadcrumb; an entry of either is its name, or None when it has none
EstadosProducto ==
    [titulo : {None, "N"},
     path : {<<>>, <<"a">>, <<"a", "b">>, <<"a", "b", "c">>,
             <<None, "b">>, <<"a", None>>, <<None>>},
     breadcrumb : {<<>>, <<"d", None, "e">>}]

\* [cat.get("name") for cat in path_root if cat.get("name")] (lines 137-138,
\* and 143 for the labels of the breadcrumb): entries without a name are left out
Nombres(entradas) == SelectSeq(entradas, LAMBDA n : n # None)

\* lines 135-143: the names of analytics_event.pathFromRoot, or those of
\* components.breadcrumb.categories when the first gave none
nombres_categorias(estado) ==
    IF Nombres(estado.path) # <<>> THEN Nombres(estado.path)
    ELSE Nombres(estado.breadcrumb)

\* a secondary category taken from the second name
Categorias_segunda(path) ==
    IF path = <<>> THEN [cat_principal |-> None, cat_secundaria |-> None]
    ELSE [cat_principal |-> path[1],
          cat_secundaria |-> IF Len(path) > 1 THEN path[2] ELSE path[1]]

\* lines 145-147
Categorias(path) ==
    IF path = <<>> THEN [cat_principal |-> None, cat_secundaria |-> None]
    ELSE [cat_principal |-> path[1],
          cat_secundaria |-> IF Len(path) > 1 THEN path[Len(path)] ELSE path[1]]

\* a driver that leaves the browsers it launched running when it stops
PlaywrightStop_sin_cierre(b) == b

\* leaving the block of async_playwright() (line 84) stops the driver, and with it
\* a browser that is still open
PlaywrightStop(b) == IF b = "open" THEN "killed" ELSE b

\* a list that keeps only the last page
Acumular_reemplaza(total, pagina) == pagina

\* vendedores_totales.extend(vendedores_pagina_actual) (line 178)
Acumular(total, pagina) == total \o pagina

\* a timeout handler that tries the page again
TrasTimeout_reintenta == "fetch"

\* except PlaywrightTimeoutError: break (lines 160-162)
TrasTimeout == "finally"

\* lines 84-85: enter async_playwright() and launch the browser
Launch(ok) ==
    /\ cr_pc = "launch"
    /\ IF ok THEN browser' = "open" /\ cr_pc' = "setup" /\ paso' = 1 /\ raised' = raised
       ELSE browser' = browser /\ cr_pc' = "aexit" /\ paso' = paso /\ raised' = TRUE
    /\ UNCHANGED <<cuotas, principal, today, tabla_crudos, ingestVars, kpiVars, numero_pagina,
                   vendedores_totales, cr_meta, served, log>>

\* lines 86-116, one statement at a time; none of them is inside the try block
Setup(ok) ==
    /\ cr_pc = "setup"
    /\ IF ~ok THEN cr_pc' = "aexit" /\ raised' = TRUE /\ paso' = paso
       ELSE /\ raised' = raised
            /\ paso' = paso + 1
            /\ cr_pc' = IF paso = Len(SetupSteps) THEN "meta" ELSE "setup"
    /\ UNCHANGED <<cuotas, principal, today, tabla_crudos, ingestVars, kpiVars, browser, numero_pagina,
                   vendedores_totales, cr_meta, served, log>>

\* a crawl that gives up when the product page cannot be read: the exception
\* goes to the handler of line 186
TrasFalloMeta_fatal == "finally"

\* except Exception (lines 150-151): the warning is printed and the function
\* goes on at line 153, into the loop
TrasFalloMeta == "fetch"

\* lines 120-151: the product page; falla = "nav": goto, inner_text or json.loads
\* raised; falla = "cats": the title was read and the categories raised.  The
\* warning of line 151 is logged with the number of fields read before it, a
\* page that was read whole with what it held.
Meta(estado, falla) ==
    /\ cr_pc = "meta"
    /\ cr_meta' =
         IF falla = "nav" THEN cr_meta
         ELSE IF falla = "cats" THEN [cr_meta EXCEPT !.nombre = estado.titulo]
         ELSE [nombre |-> estado.titulo,
               cat_principal |-> Categorias(nombres_categorias(estado)).cat_principal,
               cat_secundaria |-> Categorias(nombres_categorias(estado)).cat_secundaria]
    /\ log' = IF falla = "no" THEN Append(log, <<"producto", estado>>)
              ELSE Append(log, <<"warn", IF falla = "nav" THEN 0 ELSE 1>>)
    /\ cr_pc' = IF falla = "no" THEN "fetch" ELSE TrasFalloMeta
    /\ UNCHANGED <<cuotas, principal, today, tabla_crudos, ingestVars, kpiVars, paso, browser, raised,
                   numero_pagina, vendedores_totales, served>>

\* a loop that appends each offer as soon as it is parsed: the offers before
\* the one that raised stay in the list
ListaTrasExcepcion_parcial(total, resp) ==
    LET malo == CHOOSE i \in 1..Len(resp.items) :
                    /\ PrecioLanza(resp.items[i])
                    /\ \A j \in 1..(i - 1) : ~PrecioLanza(resp.items[j])
    IN total \o [i \in 1..(malo - 1) |-> _parsear_vendedor(resp.items[i], resp.full)]

\* an exception inside the list comprehension of line 173 leaves the loop
\* before vendedores_totales.extend (line 178): the list is as it was
ListaTrasExcepcion(total, resp) == total

\* lines 155-179: request page numero_pagina, parse it, accumulate
Fetch(resp) ==
    /\ cr_pc = "fetch"
    /\ log' = Append(log, <<"req", numero_pagina>>)
    /\ served' = Append(served, resp)
    /\ IF resp.tipo = "timeout"
       THEN cr_pc' = TrasTimeout /\ UNCHANGED <<numero_pagina, vendedores_totales>>
       ELSE IF resp.tipo = "error" \/ resp.items = <<>>
       THEN cr_pc' = "finally" /\ UNCHANGED <<numero_pagina, vendedores_totales>>
       ELSE IF PaginaLanza(resp)
       THEN /\ cr_pc' = "finally"
            /\ vendedores_totales' = ListaTrasExcepcion(vendedores_totales, resp)
            /\ numero_pagina' = numero_pagina
       ELSE /\ vendedores_totales' = Acumular(vendedores_totales, ParsearPagina(resp))
            /\ numero_pagina' = numero_pagina + 1
            /\ cr_pc' = "pace"
    /\ UNCHANGED <<cuotas, principal, today, tabla_crudos, ingestVars, kpiVars, paso, browser, raised, cr_meta>>

\* a test on the page about to be requested: the long pause comes one page early
TocaDescanso_sin_restar(n) == n % 5 = 0

\* if (numero_pagina - 1) % 5 == 0 (line 181), numero_pagina already incremented
TocaDescanso(n) == (n - 1) % 5 = 0

\* line 180: the base pause; lines 181-184: the long pause after every 5th page
Pace(ok) ==
    /\ cr_pc = "pace"
    /\ log' = Append(log, <<"sleep", numero_pagina - 1>>)
    /\ cr_pc' = IF ~ok THEN "finally"
                ELSE IF TocaDescanso(numero_pagina) THEN "cooldown" ELSE "fetch"
    /\ UNCHANGED <<cuotas, principal, today, tabla_crudos, ingestVars, kpiVars, paso, browser, raised,
                   numero_pagina, vendedores_totales, cr_meta, served>>

Cooldown(ok) ==
    /\ cr_pc = "cooldown"
    /\ log' = Append(log, <<"cooldown", numero_pagina - 1>>)
    /\ cr_pc' = IF ok THEN "fetch" ELSE "finally"
    /\ UNCHANGED <<cuotas, principal, today, tabla_crudos, ingestVars, kpiVars, paso, browser, raised,
                   numero_pagina, vendedores_totales, cr_meta, served>>

\* lines 186-189: the exception, if any, was caught; browser.close()
Finally ==
    /\ cr_pc = "finally"
    /\ browser' = "closed"
    /\ cr_pc' = "aexit"
    /\ UNCHANGED <<cuotas, principal, today, tabla_crudos, ingestVars, kpiVars, paso, raised, numero_pagina,
                   vendedores_totales, cr_meta, served, log>>

\* the end of the async with block; then line 192 returns, or the exception goes on
AExit ==
    /\ cr_pc = "aexit"
    /\ browser' = PlaywrightStop(browser)
    /\ cr_pc' = "done"
    /\ UNCHANGED <<cuotas, principal, today, tabla_crudos, ingestVars, kpiVars, paso, raised, numero_pagina,
                   vendedores_totales, cr_meta, served, log>>

InitCrawl ==
    /\ today = 1
    /\ tabla_crudos = <<>>
    /\ pc = [p \in Procs |-> "idle"]
    /\ ncalls = [p \in Procs |-> 0]
    /\ llamada = [p \in Procs |-> SinLlamada]
    /\ previa = [p \in Procs |-> SinLlamada]
    /\ datos = [p \in Procs |-> NoDatos]
    /\ KpiIdle
    /\ MainIdle
    /\ CuotasIdle
    /\ cr_pc = "launch" /\ paso = 0 /\ browser = "none" /\ raised = FALSE
    /\ numero_pagina = 1 /\ vendedores_totales = <<>>
    /\ cr_meta = MetaNone
    /\ served = <<>> /\ log = <<>>

NextCrawl ==
    \/ \E ok \in BOOLEAN : Launch(ok)
    \/ \E ok \in BOOLEAN : Setup(ok)
    \/ \E estado \in EstadosProducto, falla \in {"no", "nav", "cats"} : Meta(estado, falla)
    \/ \E resp \in Respuestas(numero_pagina) : Fetch(resp)
    \/ \E ok \in BOOLEAN : Pace(ok)
    \/ \E ok \in BOOLEAN : Cooldown(ok)
    \/ Finally
    \/ AExit

SpecCrawl == InitCrawl /\ [][NextCrawl]_vars

-----------------------------------------------------------------------------
(* KPI aggregator: src/analysis/generador_kpis.py *)

\* the seller name the configuration gives
nuestro_seller_name == "A"

\* SQL NULL for a number; a number v is Num(v)
Null == <<>>

RECURSIVE Gcd(_, _)
Gcd(a, b) == IF b = 0 THEN a ELSE Gcd(b, a % b)

\* the numeric n/d, d > 0, in lowest terms
Frac(n, d) == <<n \div Gcd(n, d), d \div Gcd(n, d)>>

\* the decimal digits of n >= 0, most significant first
RECURSIVE Digitos(_)
Digitos(n) == IF n < 10 THEN <<n>> ELSE Append(Digitos(n \div 10), n % 10)

\* order of two strings of digits, character by character
RECURSIVE CadenaMenor(_, _)
CadenaMenor(a, b) ==
    IF b = <<>> THEN FALSE
    ELSE IF a = <<>> THEN TRUE
    ELSE IF Head(a) # Head(b) THEN Head(a) < Head(b)
    ELSE CadenaMenor(Tail(a), Tail(b))

\* item_id is VARCHAR: 'MLA<n>' ordered as text
ItemMenor(a, b) == CadenaMenor(Digitos(a), Digitos(b))

\* the texts the model stores, in their order as text
OrdenTexto == <<"A", "B", "C", "C1", "C2", "N", "S">>

PosTexto(x) == CHOOSE i \in 1..Len(OrdenTexto) : OrdenTexto[i] = x

\* MAX over a text column: NULLs are skipped
MaxTexto(S) ==
    IF S \ {None} = {} THEN None
    ELSE CHOOSE x \in S \ {None} : \A y \in S \ {None} : PosTexto(y) <= PosTexto(x)

Valor(x) == x[1]

\* CASE reputacion_vendedor WHEN ... END AS reputacion_valor (lines 38-41)
reputacion_valor(r) ==
    CASE r = "MercadoLider Platinum" -> 5
      [] r = "MercadoLider Gold" -> 4
      [] r = "MercadoLider" -> 3
      [] OTHER -> 2

\* SUM(precio) and SUM(reputacion_valor) over the rows of a group
RECURSIVE SumaPrecios(_)
SumaPrecios(G) ==
    IF G = {} THEN 0
    ELSE LET r == CHOOSE x \in G : TRUE IN Valor(r.precio) + SumaPrecios(G \ {r})

RECURSIVE SumaReputacion(_)
SumaReputacion(G) ==
    IF G = {} THEN 0
    ELSE LET r == CHOOSE x \in G : TRUE
         IN reputacion_valor(r.reputacion_vendedor) + SumaReputacion(G \ {r})

\* a query without the WHERE clause: the rows of every date
FilasDeHoy_sin_filtro(tabla, hoy) == 1..Len(tabla)

\* WHERE fecha_extraccion = CURRENT_DATE (line 45): the indexes of today's rows
FilasDeHoy(tabla, hoy) == {i \in 1..Len(tabla) : tabla[i].fecha_extraccion = hoy}

\* the order of NUMERIC values: NaN equals itself and is greater than every
\* number
PrecioMenor(x, y) == x # NaN /\ (y = NaN \/ Valor(x) < Valor(y))

\* ORDER BY precio ASC, item_id ASC (line 43)
Antes(a, b) ==
    \/ PrecioMenor(a.precio, b.precio)
    \/ (a.precio = b.precio /\ ItemMenor(a.item_id, b.item_id))

\* RANK() in the place of ROW_NUMBER(), ordered by precio alone: offers at the
\* same price share a position
posicion_precio_actual_rank(r, G) ==
    1 + Cardinality({s \in G : Valor(s.precio) < Valor(r.precio)})

\* ROW_NUMBER() OVER(PARTITION BY id_catalogo ...) of row r within its group G
posicion_precio_actual(r, G) == 1 + Cardinality({s \in G : Antes(s, r)})

\* a flag that marks every row as ours
es_nuestro_cualquiera(r) == TRUE

\* (nombre_vendedor = nuestro_seller_name) AS es_nuestro
es_nuestro(r) == r.nombre_vendedor = nuestro_seller_name

MaxNum(S) == IF S = {} THEN Null ELSE Num(CHOOSE x \in S : \A y \in S : y <= x)
MinNum(S) == IF S = {} THEN Null ELSE Num(CHOOSE x \in S : \A y \in S : x <= y)

\* a leader taken from the other end of the ranking
Lideres_ultimo(G) == {r \in G : posicion_precio_actual(r, G) = Cardinality(G)}

\* CASE WHEN posicion_precio_actual = 1 (lines 68-69): the rows the leader
\* columns are taken from
Lideres(G) == {r \in G : posicion_precio_actual(r, G) = 1}

\* AVG(CAST(flag AS INT)) * 100 (lines 63-66) over the flags of a group, one
\* per row: AVG skips the NULL flags, and is NULL when every flag is NULL
PctFlag(flags) ==
    LET conValor == {i \in DOMAIN flags : flags[i] # SinFlag}
        ciertos == {i \in DOMAIN flags : flags[i] = Flag(TRUE)}
    IN IF conValor = {} THEN Null
       ELSE Frac(100 * Cardinality(ciertos), Cardinality(conValor))

\* MIN in the place of MAX: the price of our cheapest offer
NuestroPrecio_min(nuestros) ==
    IF nuestros # {} /\ \A r \in nuestros : r.precio = NaN THEN NaN
    ELSE MinNum({Valor(r.precio) : r \in {x \in nuestros : x.precio # NaN}})

\* MAX(CASE WHEN es_nuestro THEN precio END) AS nuestro_precio (line 59)
NuestroPrecio(nuestros) ==
    IF \E r \in nuestros : r.precio = NaN THEN NaN
    ELSE MaxNum({Valor(r.precio) : r \in nuestros})

\* the SELECT ... GROUP BY id_catalogo (lines 48-74) for the group G of one
\* product.  A price can be NaN (a NUMERIC value): MAX and AVG over a group with
\* NaN are NaN, MIN is NaN when every price is, and NaN minus anything is NaN.
FilaKpi(G, id) ==
    LET precios == {Valor(r.precio) : r \in {x \in G : x.precio # NaN}}
        hayNaN == \E r \in G : r.precio = NaN
        nuestros == {r \in G : es_nuestro(r)}
        lideres == Lideres(G)
        nuestro_precio == NuestroPrecio(nuestros)
    IN [fecha |-> CHOOSE f \in {r.fecha_extraccion : r \in G} :
                    \A g \in {r.fecha_extraccion : r \in G} : g <= f,
        id_catalogo |-> id,
        nombre_producto |-> MaxTexto({r.nombre_producto : r \in G}),
        categoria_principal |-> MaxTexto({r.categoria_principal : r \in G}),
        categoria_secundaria |-> MaxTexto({r.categoria_secundaria : r \in G}),
        n_competidores |-> Cardinality(G),
        precio_minimo |-> IF precios = {} THEN NaN ELSE MinNum(precios),
        precio_promedio |-> IF hayNaN THEN NaN ELSE Frac(SumaPrecios(G), Cardinality(G)),
        precio_maximo |-> IF hayNaN THEN NaN ELSE MaxNum(precios),
        nuestro_precio |-> nuestro_precio,
        posicion_precio |-> MaxNum({posicion_precio_actual(r, G) : r \in nuestros}),
        pct_con_full |-> PctFlag([r \in G |-> r.envio_full]),
        competidor_lider_precio_id |-> MaxNum({r.item_id : r \in lideres}),
        competidor_lider_precio_nombre |-> MaxTexto({r.nombre_vendedor : r \in lideres}),
        diferencia_vs_lider |->
            IF nuestro_precio = Null THEN Null
            ELSE IF nuestro_precio = NaN THEN NaN
            ELSE Num(Valor(nuestro_precio) - Valor(MinNum(precios))),
        reputacion_promedio_valor |->
            Frac(SumaReputacion(G), Cardinality(G))]

\* query_kpis (lines 30-75) over the table: one row per id_catalogo with rows today
query_kpis(tabla, hoy) ==
    LET filas == {tabla[i] : i \in FilasDeHoy(tabla, hoy)}
    IN {FilaKpi({r \in filas : r.id_catalogo = id}, id) : id \in {r.id_catalogo : r \in filas}}

MismaClave(a, b) == a.fecha = b.fecha /\ a.id_catalogo = b.id_catalogo

\* a merge with ON CONFLICT ... DO UPDATE SET n_competidores = stored + EXCLUDED:
\* every run over a stored key adds to it
upsert_sql_acumula(tabla, df_kpis) ==
    {r \in tabla : ~\E n \in df_kpis : MismaClave(r, n)}
    \cup {n \in df_kpis : ~\E r \in tabla : MismaClave(r, n)}
    \cup {[n EXCEPT !.n_competidores = @ + (CHOOSE r \in tabla : MismaClave(r, n)).n_competidores] :
            n \in {m \in df_kpis : \E r \in tabla : MismaClave(r, m)}}

\* TRUNCATE and INSERT: the table holds the rows of the last run only
upsert_sql_truncate(tabla, df_kpis) == df_kpis

\* a plain INSERT into a table without a key: a stored row stays beside the
\* new row of its (fecha, id_catalogo)
upsert_sql_insert(tabla, df_kpis) == tabla \cup df_kpis

\* a merge with ON CONFLICT ... DO NOTHING: a stored row keeps its values
upsert_sql_do_nothing(tabla, df_kpis) ==
    tabla \cup {n \in df_kpis : ~\E r \in tabla : MismaClave(r, n)}

\* INSERT ... SELECT * FROM temp_kpis ON CONFLICT (fecha, id_catalogo) DO UPDATE
\* SET every column = EXCLUDED.column (lines 102-110)
upsert_sql(tabla, df_kpis) ==
    {r \in tabla : ~\E n \in df_kpis : MismaClave(r, n)} \cup df_kpis

\* a merge that commits row by row: a failure leaves the rows merged so far
Rollback_parcial(tabla, df_kpis) ==
    upsert_sql(tabla, {CHOOSE n \in df_kpis : TRUE})

\* an exception between line 98 and line 111 leaves the with-block of line 78
\* before db_connection.commit(): the connection is closed and the temporary
\* table, the COPY and the merge, all of one transaction, are rolled back
Rollback(tabla, df_kpis) == tabla

\* what the function hands back to its caller: it ends at line 83, at line 113
\* or in the handler of lines 115-116, and never returns a value
RetornoKpis(estado) == None

\* the body of ejecutar_generacion_kpis (lines 77-116); falla = "sql": the read
\* of line 79 raised; falla = "merge": the staging, the merge or the commit
\* raised, which takes a result that is not empty.  Either exception is caught
\* at line 115.
Generar(falla) ==
    LET df_kpis == query_kpis(tabla_crudos, today)
        leidas == SelectSeq(tabla_crudos, LAMBDA r : r.fecha_extraccion = today)
        run(e) == [estado |-> e, leidas |-> leidas, fecha |-> today, antes |-> tabla_kpis]
    IN IF falla = "sql"
       THEN tabla_kpis' = tabla_kpis /\ kpi_run' = run("error_lectura")
       ELSE IF df_kpis = {}
       THEN tabla_kpis' = tabla_kpis /\ kpi_run' = run("vacio")
       ELSE IF falla = "merge"
       THEN tabla_kpis' = Rollback(tabla_kpis, df_kpis) /\ kpi_run' = run("error_merge")
       ELSE tabla_kpis' = upsert_sql(tabla_kpis, df_kpis) /\ kpi_run' = run("ok")

\* a direct call of ejecutar_generacion_kpis(source_table, kpi_table,
\* nuestro_seller_name), as in lines 118-124
GenerarKpis(falla) ==
    /\ cr_pc = "off"
    /\ Generar(falla)
    /\ UNCHANGED <<cuotas, principal, today, tabla_crudos, ingestVars, crawlVars>>

\* the rows an ingestion call can store.  A publication belongs to one product:
\* items 3, 2 and 10 to MLA1, item 4 to MLA2.  Item 3 is ours, at one of two
\* prices; items 2 and 10 tie on the price; the tracking data of item 10 carried
\* has_full_filment: null (scraper, lines 25 and 171), stored as NULL
FilaCruda(fecha, id, item, vendedor, precio, full, rep) ==
    [fecha_extraccion |-> fecha, id_catalogo |-> id, nombre_producto |-> "N",
     categoria_principal |-> "C1", categoria_secundaria |-> "C2",
     item_id |-> item, nombre_vendedor |-> vendedor, precio |-> Num(precio),
     envio_full |-> full, reputacion_vendedor |-> rep]

FilasPosibles(fecha) ==
    { FilaCruda(fecha, "MLA1", 3, "A", 100, Flag(FALSE), "MercadoLider"),
      FilaCruda(fecha, "MLA1", 3, "A", 80, Flag(FALSE), "MercadoLider"),
      FilaCruda(fecha, "MLA1", 2, "B", 90, Flag(TRUE), "MercadoLider Platinum"),
      FilaCruda(fecha, "MLA1", 10, "C", 90, SinFlag, "Regular"),
      FilaCruda(fecha, "MLA2", 4, "B", 90, Flag(TRUE), "MercadoLider Gold") }

\* an ingestion call commits a row of today (procesar_y_enriquecer_datos)
Ingesta(fila) ==
    /\ cr_pc = "off"
    /\ Len(tabla_crudos) < MaxFilas
    /\ InsertarFilas(tabla_crudos, <<fila>>).ok
    /\ tabla_crudos' = Commit(tabla_crudos, InsertarFilas(tabla_crudos, <<fila>>))
    /\ UNCHANGED <<cuotas, principal, today, ingestVars, crawlVars, kpiVars>>

InitKpi ==
    /\ today = 1
    /\ tabla_crudos = <<>>
    /\ pc = [p \in Procs |-> "idle"]
    /\ ncalls = [p \in Procs |-> 0]
    /\ llamada = [p \in Procs |-> SinLlamada]
    /\ previa = [p \in Procs |-> SinLlamada]
    /\ datos = [p \in Procs |-> NoDatos]
    /\ CrawlIdle
    /\ KpiIdle
    /\ MainIdle
    /\ CuotasIdle

NextKpi ==
    \/ \E fila \in FilasPosibles(today) : Ingesta(fila)
    \/ \E falla \in {"no", "sql", "merge"} : GenerarKpis(falla)
    \/ Tick

SpecKpi == InitKpi /\ [][NextKpi]_vars

\* rows of one product on a day when our seller holds several publications:
\* items 9 and 10 at the same price, item 5 cheaper, among two competitors;
\* item 7, ours, was stored without a price (NaN)
FilasNuestras(fecha) ==
    { FilaCruda(fecha, "MLA1", 9, "A", 100, Flag(FALSE), "MercadoLider"),
      FilaCruda(fecha, "MLA1", 10, "A", 100, Flag(FALSE), "MercadoLider"),
      FilaCruda(fecha, "MLA1", 5, "A", 80, Flag(FALSE), "MercadoLider"),
      FilaCruda(fecha, "MLA1", 2, "B", 90, Flag(TRUE), "MercadoLider Platinum"),
      FilaCruda(fecha, "MLA1", 4, "C", 100, Flag(TRUE), "Regular"),
      [FilaCruda(fecha, "MLA1", 7, "A", 0, Flag(FALSE), "Regular") EXCEPT !.precio = NaN] }

NextNuestras ==
    \/ \E fila \in FilasNuestras(today) : Ingesta(fila)
    \/ \E falla \in {"no", "sql", "merge"} : GenerarKpis(falla)

\* the aggregator over the rows of a day with several offers of ours
SpecNuestras == InitKpi /\ [][NextNuestras]_vars

-----------------------------------------------------------------------------
(* Pipeline run: src/main.py *)

\* the lists of URLs a configuration can hold
ListasUrls == UNION {[1..n -> Urls] : n \in 0..MaxCalls}

\* what cargar_configuracion and the tests of lines 26, 33 and 57 can meet:
\* valida = FALSE stands for a missing file, more than one company or a missing
\* seller_name / tabla_crudos / tabla_kpis
Configuraciones == [valida : BOOLEAN, urls : ListasUrls]

\* random.shuffle(urls) (line 55): any order of the same list
Barajadas(urls) ==
    {[i \in 1..Len(urls) |-> urls[f[i]]] :
        f \in {g \in [1..Len(urls) -> 1..Len(urls)] :
                 \A i, j \in 1..Len(urls) : g[i] = g[j] => i = j}}

\* the parameters of ejecutar_generacion_kpis (generador_kpis.py, line 9) and the
\* arguments main() passes to it (main.py, line 76)
ParametrosKpis == <<"source_table", "kpi_table", "nuestro_seller_name">>
ArgumentosFase2 == <<"tabla_crudos", "tabla_kpis", "seller_name", "fecha_ejecucion">>

\* a loop that an exception of one URL ends
SigueBucle_corta_en_fallo(i, urls, ultima) == i < Len(urls) /\ ultima.crawl # "raise"

\* for i, url in enumerate(urls) with the try / except Exception of lines 66-70:
\* whatever the call for the last URL did, the loop goes on to the next one
SigueBucle(i, urls, ultima) == i < Len(urls)

\* lines 25-60: load the configuration, shuffle the URLs, return early when
\* the configuration is missing or incomplete
Configurar(config, barajada) ==
    /\ principal.pc = "inicio"
    /\ principal' = IF config.valida /\ config.urls # <<>>
                    THEN [pc |-> "fase1", urls |-> barajada]
                    ELSE [pc |-> "retorno", urls |-> <<>>]
    /\ UNCHANGED <<cuotas, today, tabla_crudos, ingestVars, crawlVars, kpiVars>>

\* line 68: the call of ejecutar_proceso_para_url for the next URL of the list
ProcesarUrl ==
    /\ principal.pc = "fase1"
    /\ SigueBucle(ncalls["p1"], principal.urls, llamada["p1"])
    /\ ncalls["p1"] < Len(principal.urls)
    /\ Start("p1", principal.urls[ncalls["p1"] + 1])

\* lines 72-78, once the loop is over: the call of line 76 binds its arguments
\* to the parameters of the function; when they do not match in number the call
\* raises TypeError before the body runs, and line 77 catches it
Fase2(falla) ==
    /\ principal.pc = "fase1"
    /\ pc["p1"] = "idle"
    /\ ~SigueBucle(ncalls["p1"], principal.urls, llamada["p1"])
    /\ IF Len(ArgumentosFase2) = Len(ParametrosKpis)
       THEN Generar(falla)
       ELSE /\ tabla_kpis' = tabla_kpis
            /\ kpi_run' = [estado |-> "TypeError", leidas |-> <<>>, fecha |-> today,
                           antes |-> tabla_kpis]
    /\ principal' = [principal EXCEPT !.pc = "fin"]
    /\ UNCHANGED <<cuotas, today, tabla_crudos, ingestVars, crawlVars>>

InitMain ==
    /\ today = 1
    /\ tabla_crudos = <<>>
    /\ pc = [p \in Procs |-> "idle"]
    /\ ncalls = [p \in Procs |-> 0]
    /\ llamada = [p \in Procs |-> SinLlamada]
    /\ previa = [p \in Procs |-> SinLlamada]
    /\ datos = [p \in Procs |-> NoDatos]
    /\ CrawlIdle
    /\ KpiIdle
    /\ principal = [pc |-> "inicio", urls |-> <<>>]
    /\ CuotasIdle

NextMain ==
    \/ \E config \in Configuraciones : \E barajada \in Barajadas(config.urls) :
          Configurar(config, barajada)
    \/ ProcesarUrl
    \/ \E db_ok \in BOOLEAN : Check("p1", db_ok)
    \/ \E ret \in CrawlOutcomes : Crawl("p1", ret)
    \/ \E db_ok \in BOOLEAN : Persist("p1", db_ok)
    \/ \E falla \in {"no", "sql", "merge"} : Fase2(falla)
    \/ Tick

SpecMain == InitMain /\ [][NextMain]_vars

-----------------------------------------------------------------------------
(* Installments parser: obtener_cuotas_sin_interes, src/scraping/procesador_datos.py *)

\* A text is a sequence of pieces: a word, a digit or a white space.  Pieces
\* stand next to each other with nothing in between, as characters do.
CifrasTexto == {"0", "1", "2", "3", "6"}

ValorDigito(t) ==
    CASE t = "0" -> 0 [] t = "1" -> 1 [] t = "2" -> 2 [] t = "3" -> 3 [] t = "6" -> 6

\* re.IGNORECASE: a piece and its upper-case writing match the same literal
Minuscula(t) ==
    CASE t = "Mismo precio en" -> "mismo precio en"
      [] t = "MISMO PRECIO EN" -> "mismo precio en"
      [] t = "CUOTAS" -> "cuotas"
      [] t = "SIN" -> "sin"
      [] t = "INTERÉS" -> "interés"
      [] OTHER -> t

\* the value given to the function: a str, None, or a float (NaN of a pandas
\* column)
Str(toks) == [tipo |-> "str", toks |-> toks]
NoStr(tipo) == [tipo |-> tipo, toks |-> <<>>]

\* the phrases the texts are put together from
Frases ==
    { <<"Mismo precio en", " ", "6", " ", "cuotas">>,
      <<"MISMO PRECIO EN", "1", "2", "CUOTAS">>,
      <<"6", " ", "cuotas", " ", "sin", " ", "interés">>,
      <<"3", "cuotas", "SIN", " ", " ", "INTERÉS">>,
      <<"3", " ", "cuotas", " ", "sin", " ", "interes">>,
      <<"6", " ", "cuotas">>,
      <<"Mismo precio en", " ", "cuotas">>,
      <<"cuotas", " ", "sin", " ", "interés">>,
      <<"hasta">>,
      <<" ">>,
      <<"1">> }

RECURSIVE Unir(_)
Unir(fs) == IF fs = <<>> THEN <<>> ELSE Head(fs) \o Unir(Tail(fs))

Textos ==
    {Str(Unir(fs)) : fs \in UNION {[1..n -> Frases] : n \in 0..MaxFrases}}
    \cup {NoStr("NoneType"), NoStr("float")}

\* \s*: the first place at or after i that holds no white space
RECURSIVE SaltarEspacios(_, _)
SaltarEspacios(s, i) ==
    IF i <= Len(s) /\ s[i] = " " THEN SaltarEspacios(s, i + 1) ELSE i

\* (\d+), greedy: the place after the run of digits that starts at i
RECURSIVE FinDigitos(_, _)
FinDigitos(s, i) ==
    IF i <= Len(s) /\ s[i] \in CifrasTexto THEN FinDigitos(s, i + 1) ELSE i

\* int(numero_cuotas) for the digits s[a], ..., s[b-1]
RECURSIVE Entero(_, _, _)
Entero(s, a, b) ==
    IF b <= a THEN 0 ELSE 10 * Entero(s, a, b - 1) + ValorDigito(s[b - 1])

Literal(s, i, palabra) == i <= Len(s) /\ Minuscula(s[i]) = palabra

SinCoincidencia == -1

\* (?:Mismo precio en\s*(\d+)\s*cuotas) tried at place i: group 1 or no match
MismoPrecioEn(s, i) ==
    LET a == SaltarEspacios(s, i + 1)
        b == FinDigitos(s, a)
        c == SaltarEspacios(s, b)
    IN IF Literal(s, i, "mismo precio en") /\ b > a /\ Literal(s, c, "cuotas")
       THEN Entero(s, a, b) ELSE SinCoincidencia

\* (?:(\d+)\s*cuotas\s*sin\s*interés) tried at place i: group 2 or no match
CuotasSinInteres(s, i) ==
    LET b == FinDigitos(s, i)
        c == SaltarEspacios(s, b)
        d == SaltarEspacios(s, c + 1)
        f == SaltarEspacios(s, d + 1)
    IN IF b > i /\ Literal(s, c, "cuotas") /\ Literal(s, d, "sin") /\ Literal(s, f, "interés")
       THEN Entero(s, i, b) ELSE SinCoincidencia

\* patron (line 44) tried at place i: the first alternative, then the second
patron(s, i) ==
    IF MismoPrecioEn(s, i) # SinCoincidencia THEN MismoPrecioEn(s, i)
    ELSE CuotasSinInteres(s, i)

\* a search that keeps the match furthest to the right
RECURSIVE re_search_ultimo(_, _)
re_search_ultimo(s, i) ==
    IF i > Len(s) THEN SinCoincidencia
    ELSE IF re_search_ultimo(s, i + 1) # SinCoincidencia THEN re_search_ultimo(s, i + 1)
    ELSE patron(s, i)

\* re.search(patron, texto, re.IGNORECASE) (line 46) from place i on: the
\* match that starts furthest to the left
RECURSIVE re_search(_, _)
re_search(s, i) ==
    IF i > Len(s) THEN SinCoincidencia
    ELSE IF patron(s, i) # SinCoincidencia THEN patron(s, i)
    ELSE re_search(s, i + 1)

\* obtener_cuotas_sin_interes (lines 38-56)
obtener_cuotas_sin_interes(texto) ==
    IF texto.tipo # "str" \/ texto.toks = <<>> THEN 0
    ELSE IF re_search(texto.toks, 1) # SinCoincidencia THEN re_search(texto.toks, 1)
    ELSE 0

\* the enricher hands the text of one offer to the function (line 112)
Recibir(texto) ==
    /\ cuotas.pc = "inicio"
    /\ cuotas' = [cuotas EXCEPT !.pc = "llamada", !.texto = texto]
    /\ UNCHANGED <<principal, today, tabla_crudos, ingestVars, crawlVars, kpiVars>>

\* the function returns
Devolver ==
    /\ cuotas.pc = "llamada"
    /\ cuotas' = [cuotas EXCEPT !.pc = "hecho",
                                !.resultado = obtener_cuotas_sin_interes(cuotas.texto)]
    /\ UNCHANGED <<principal, today, tabla_crudos, ingestVars, crawlVars, kpiVars>>

InitCuotas ==
    /\ today = 1
    /\ tabla_crudos = <<>>
    /\ pc = [p \in Procs |-> "idle"]
    /\ ncalls = [p \in Procs |-> 0]
    /\ llamada = [p \in Procs |-> SinLlamada]
    /\ previa = [p \in Procs |-> SinLlamada]
    /\ datos = [p \in Procs |-> NoDatos]
    /\ CrawlIdle
    /\ KpiIdle
    /\ MainIdle
    /\ cuotas = [pc |-> "inicio", texto |-> Str(<<>>), resultado |-> 0]

NextCuotas ==
    \/ \E texto \in Textos : Recibir(texto)
    \/ Devolver

SpecCuotas == InitCuotas /\ [][NextCuotas]_vars

-----------------------------------------------------------------------------
(* From the page of the site to the KPI row: the crawler's parser, the     *)
(* enricher and the aggregator in a row                                    *)

\* seller.reputation_level as the site sends it: a known level, another level,
\* the empty text, or no level at all
Niveles == {"5_green", "4_light_green", "3_yellow", "1_red", "", None}

\* pages of one or two offers, each with a price and a level
PaginasConNivel ==
    {Pagina(<<It(1, OkPrice, r)>>, {}) : r \in Niveles}
    \cup {Pagina(<<It(1, OkPrice, r[1]), It(2, OkPrice, r[2])>>, {}) :
             r \in { <<"5_green", "1_red">>, <<"4_light_green", None>>,
                      <<"3_yellow", "">>, <<"5_green", "4_light_green">> }}

\* the crawl of line 164 over one page of the site: the offers as
\* _parsear_vendedor gives them (line 173 of the crawler)
CrawlPagina(p, resp) ==
    /\ pc[p] = "crawl"
    /\ llamada' = [llamada EXCEPT ![p].crawl = "offers"]
    /\ pc' = [pc EXCEPT ![p] = "insert"]
    /\ datos' = [datos EXCEPT ![p] =
                    [raise |-> FALSE, vendedores |-> ParsearPagina(resp), meta |-> MetaFull]]
    /\ served' = Append(served, resp)
    /\ UNCHANGED <<cuotas, principal, today, tabla_crudos, ncalls, previa, kpiVars,
                   cr_pc, paso, browser, raised, numero_pagina, vendedores_totales, cr_meta, log>>

InitPuntaje ==
    /\ today = 1
    /\ tabla_crudos = <<>>
    /\ pc = [p \in Procs |-> "idle"]
    /\ ncalls = [p \in Procs |-> 0]
    /\ llamada = [p \in Procs |-> SinLlamada]
    /\ previa = [p \in Procs |-> SinLlamada]
    /\ datos = [p \in Procs |-> NoDatos]
    /\ CrawlIdle
    /\ KpiIdle
    /\ MainIdle
    /\ CuotasIdle

NextPuntaje ==
    \/ \E url \in Urls : Start("p1", url)
    \/ \E db_ok \in BOOLEAN : Check("p1", db_ok)
    \/ \E resp \in PaginasConNivel : CrawlPagina("p1", resp)
    \/ \E db_ok \in BOOLEAN : Persist("p1", db_ok)
    \/ \E falla \in {"no", "sql", "merge"} : GenerarKpis(falla)

SpecPuntaje == InitPuntaje /\ [][NextPuntaje]_vars

-----------------------------------------------------------------------------
(* Claims about the ingestion guard *)

Crawls(r) == IF r.crawl = "-" THEN 0 ELSE 1
Batches(r) == IF r.ins = "ok" THEN 1 ELSE 0

\* two calls in sequence by caller p for the same (catalog_id, date), both over
SameKeyTwice(p) ==
    /\ ncalls[p] >= 2 /\ pc[p] = "idle"
    /\ llamada[p].id # None /\ previa[p].id = llamada[p].id
    /\ previa[p].fecha = llamada[p].fecha

C3_UniqueFechaItem ==
    \A i, j \in 1..Len(tabla_crudos) :
        ( /\ tabla_crudos[i].fecha_extraccion = tabla_crudos[j].fecha_extraccion
          /\ tabla_crudos[i].item_id = tabla_crudos[j].item_id ) => i = j

\* an insert was rejected by the constraint while rows were stored
C3_Witness ==
    \E p \in Procs : llamada[p].ins = "dup" /\ Len(tabla_crudos) >= 2

\* another call for the same (catalog_id, date) is past its check and has not
\* finished its insert
Racing(p) ==
    \E q \in Procs \ {p} :
        /\ pc[q] \in {"crawl", "insert"}
        /\ llamada[q].id = llamada[p].id /\ llamada[q].fecha = llamada[p].fecha

\* C4: the existence check takes no lock: a call whose check runs while another
\* call for the same (catalog_id, date) is between its own check and its insert,
\* and finds no row, proceeds to the crawler as well.
C4_CheckDoesNotExclude ==
    [][ \A p \in Procs :
          ( /\ pc[p] = "check" /\ pc'[p] # "check"
            /\ Racing(p)
            /\ ~ExisteFila(tabla_crudos, llamada[p].id, llamada[p].fecha) )
              => pc'[p] = "crawl" ]_vars

\* both calls observed 'not present', both crawled, both are about to insert
C4_Witness ==
    /\ \A p \in Procs : pc[p] = "insert" /\ llamada[p].chk = "no" /\ llamada[p].crawl = "offers"
    /\ llamada["p1"].id = llamada["p2"].id
    /\ llamada["p1"].fecha = llamada["p2"].fecha


-----------------------------------------------------------------------------
(* Claims about the crawler *)

\* the page numbers requested, in order
Requests == [i \in 1..Len(SelectSeq(log, LAMBDA e : e[1] = "req")) |->
                SelectSeq(log, LAMBDA e : e[1] = "req")[i][2]]

\* the site answered a page with items, each of which parses
BuenaPagina(resp) == resp.tipo = "page" /\ resp.items # <<>> /\ ~PaginaLanza(resp)

\* the offers of the pages 1..k the site served, parsed, in page order
OfertasServidas(k) == Concat([i \in 1..k |-> ParsearPagina(served[i])])

\* the site served items on pages 1..k and then, on page k+1, the answer of kind t
ServedItemsThen(k, t) ==
    /\ Len(served) = k + 1
    /\ \A i \in 1..k : BuenaPagina(served[i])
    /\ served[k + 1] = t

\* C5: when the site serves items on pages 1..k and an empty page k+1, the crawl
\* holds exactly the parsed offers of pages 1..k in page order, requested the
\* pages 1..k+1 once each and nothing beyond, and returns without raising.
C5_ConcatenationOfPages ==
    \A k \in 0..(MaxPages + 1) :
        ServedItemsThen(k, PaginaVacia)
            => /\ vendedores_totales = OfertasServidas(k)
               /\ Requests = [i \in 1..(k + 1) |-> i]
               /\ cr_pc \in {"finally", "aexit", "done"}
               /\ ~raised

\* pages 1-3 with items, page 4 empty, the function has returned
C5_Witness ==
    /\ cr_pc = "done"
    /\ ServedItemsThen(3, PaginaVacia)
    /\ Len(vendedores_totales) >= 3

\* C6: the crawl never raises to its caller.
C6_NeverRaises == cr_pc = "done" => ~raised

C8_TimeoutEndsPagination ==
    \A n \in 1..(MaxPages + 2) :
        (Len(served) >= n /\ served[n] = Timeout)
            => /\ Len(served) = n
               /\ Requests = [i \in 1..n |-> i]
               /\ vendedores_totales = OfertasServidas(n - 1)
               /\ cr_pc \in {"finally", "aexit", "done"}
               /\ ~raised

C8_Witness ==
    /\ cr_pc = "done"
    /\ ServedItemsThen(2, Timeout)
    /\ vendedores_totales = OfertasServidas(2)

\* C9: a malformed offer affects that offer only: when the function returns,
\* every well-formed offer of every page the site served with items is in the
\* result.
C9_MalformedOfferOnly ==
    cr_pc = "done" =>
        \A i \in 1..Len(served) :
            \A j \in 1..Len(served[i].items) :
                ~PrecioLanza(served[i].items[j])
                    => _parsear_vendedor(served[i].items[j], served[i].full)
                           \in Range(vendedores_totales)


-----------------------------------------------------------------------------
(* Claims about the KPI aggregator *)

\* the rows the last run read, and the products among them
Leidas == Range(kpi_run.leidas)
ProductosLeidos == {r.id_catalogo : r \in Leidas}

\* the stored KPI rows of the last run's date for product id
KpisDe(id) == {k \in tabla_kpis : k.fecha = kpi_run.fecha /\ k.id_catalogo = id}

\* C10: after a run that succeeded, the KPI row of (date, catalog_id), for every
\* product the run read rows of, is the one row computed from the rows that run
\* read, column by column; a row an earlier run of the same date stored keeps
\* no value.
C10_UpsertOverwritesEveryColumn ==
    kpi_run.estado = "ok" =>
        \A id \in ProductosLeidos :
            KpisDe(id) = {FilaKpi({r \in Leidas : r.id_catalogo = id}, id)}

\* a second run of the same date replaced a stored row: the count, the minimum
\* and our price all changed
C10_Witness ==
    /\ kpi_run.estado = "ok"
    /\ \E viejo \in kpi_run.antes : \E nuevo \in tabla_kpis :
          /\ viejo.fecha = kpi_run.fecha
          /\ MismaClave(viejo, nuevo)
          /\ viejo.n_competidores # nuevo.n_competidores
          /\ viejo.precio_minimo # nuevo.precio_minimo
          /\ viejo.nuestro_precio # nuevo.nuestro_precio

\* the rows of today the raw table holds now, in storage order
CrudasDeHoy == SelectSeq(tabla_crudos, LAMBDA r : r.fecha_extraccion = today)

\* C11: a run over the raw rows that the run before it read, on the same date,
\* when that earlier run completed (it merged its rows or found none), leaves
\* the KPI table exactly as the earlier run left it, whether it completes or
\* fails: the rows a run writes are a function of the raw rows of the date.
C11_RerunLeavesStoreIdentical ==
    [][ ( /\ kpi_run' # kpi_run
          /\ kpi_run.estado \in {"ok", "vacio"}
          /\ kpi_run.fecha = today
          /\ kpi_run.leidas = CrudasDeHoy )
            => /\ tabla_kpis' = tabla_kpis
               /\ kpi_run'.leidas = kpi_run.leidas
               /\ (kpi_run'.estado = "ok" =>
                     query_kpis(tabla_crudos, today) \subseteq tabla_kpis') ]_vars

\* a run that merged the rows of two offers over a table that already held
\* exactly what it computed
C11_Witness ==
    /\ kpi_run.estado = "ok"
    /\ Len(kpi_run.leidas) >= 2
    /\ kpi_run.antes = tabla_kpis
    /\ tabla_kpis # {}

\* the rows of product id the last run read
Grupo(id) == {r \in Leidas : r.id_catalogo = id}

\* the place of a row in the order the table stores the rows the run read
Lugar(r) == CHOOSE i \in 1..Len(kpi_run.leidas) : kpi_run.leidas[i] = r

\* C12: in every group of rows a run reads, the positions are 1..n, each taken
\* by one offer, and one offer is placed before another exactly when its price
\* is lower or, at the same price, its item_id comes first (item_id is text and
\* is compared as text), wherever the two rows are stored.
C12_RankIsPermutation ==
    \A id \in ProductosLeidos :
        LET G == Grupo(id)
            pos(r) == posicion_precio_actual(r, G)
        IN /\ {pos(r) : r \in G} = 1..Cardinality(G)
           /\ \A a, b \in G :
                 /\ (pos(a) = pos(b)) => a = b
                 /\ (pos(a) < pos(b)) <=>
                       \/ Valor(a.precio) < Valor(b.precio)
                       \/ /\ Valor(a.precio) = Valor(b.precio)
                          /\ CadenaMenor(Digitos(a.item_id), Digitos(b.item_id))

\* a group of three offers, two of them at the same price, stored in an order
\* that is the reverse of the ranking
C12_Witness ==
    /\ kpi_run.estado = "ok"
    /\ \E id \in ProductosLeidos :
          /\ Cardinality(Grupo(id)) = 3
          /\ \E a, b \in Grupo(id) : a # b /\ a.precio = b.precio
          /\ \A a, b \in Grupo(id) :
                Lugar(a) < Lugar(b) =>
                    posicion_precio_actual(b, Grupo(id)) < posicion_precio_actual(a, Grupo(id))

\* the KPI rows the last run computed, or would have computed, from what it read
Calculadas == query_kpis(kpi_run.leidas, kpi_run.fecha)

\* C13: the KPI table is, after every run, either exactly what it was before
\* the run or what it was with every computed row merged in; after a run that
\* raised, at the read or anywhere between the staging and the commit, it is
\* exactly what it was before.
C13_MergeAllOrNothing ==
    /\ kpi_run.estado \in {"error_lectura", "error_merge", "vacio"} => tabla_kpis = kpi_run.antes
    /\ \/ tabla_kpis = kpi_run.antes
       \/ /\ Calculadas \subseteq tabla_kpis
          /\ \A k \in tabla_kpis :
                k \in Calculadas
                \/ (k \in kpi_run.antes /\ \A n \in Calculadas : ~MismaClave(k, n))

\* a run over two products failed between the staging and the commit: one
\* product has a stored row the merge would have replaced, the other none
C13_Witness ==
    /\ kpi_run.estado = "error_merge"
    /\ Cardinality(ProductosLeidos) = 2
    /\ \A n \in Calculadas : n \notin tabla_kpis
    /\ \E n \in Calculadas : \E k \in tabla_kpis : MismaClave(k, n)

OfertasDe(id) == {<<r.nombre_vendedor, Valor(r.precio)>> : r \in Grupo(id)}

\* the example of the specification: A at 100, B and C at 90
EjemploABC == {<<"A", 100>>, <<"B", 90>>, <<"C", 90>>}

\* C15: in the KPI row a run stores for a product, the leader's id and the
\* leader's name are those of one row of the group, the price of that row is
\* precio_minimo, no offer is cheaper, and every other offer at that price has
\* an item_id that comes after the leader's; for A at 100 and B, C at 90, with
\* A ours, the minimum is 90, the leader is B or C, our position is 3 and the
\* difference to the leader is 10.
C15_LeaderIsRankOne ==
    kpi_run.estado = "ok" =>
        \A id \in ProductosLeidos :
            /\ KpisDe(id) # {}
            /\ \A k \in KpisDe(id) :
                  /\ \E r \in Grupo(id) :
                        /\ Num(r.item_id) = k.competidor_lider_precio_id
                        /\ r.nombre_vendedor = k.competidor_lider_precio_nombre
                        /\ r.precio = k.precio_minimo
                        /\ \A s \in Grupo(id) :
                              /\ Valor(r.precio) <= Valor(s.precio)
                              /\ (s # r /\ s.precio = r.precio)
                                    => CadenaMenor(Digitos(r.item_id), Digitos(s.item_id))
                  /\ OfertasDe(id) = EjemploABC
                        => /\ k.precio_minimo = Num(90)
                           /\ k.competidor_lider_precio_nombre \in {"B", "C"}
                           /\ k.posicion_precio = Num(3)
                           /\ k.diferencia_vs_lider = Num(10)

\* a run stored the KPI row of a product whose offers are those of the example
C15_Witness ==
    /\ kpi_run.estado = "ok"
    /\ \E id \in ProductosLeidos :
          OfertasDe(id) = EjemploABC /\ KpisDe(id) # {}

\* the rows of product id the last run read whose seller is ours
Nuestras(id) == {r \in Grupo(id) : r.nombre_vendedor = nuestro_seller_name}

C17_PctOverAllRows ==
    kpi_run.estado = "ok" =>
        \A id \in ProductosLeidos : \A k \in KpisDe(id) :
            /\ k.n_competidores = Cardinality(Grupo(id))
            /\ k.pct_con_full =
                  Frac(100 * Cardinality({r \in Grupo(id) : r.envio_full = Flag(TRUE)}),
                       k.n_competidores)
            /\ k.pct_con_full # Null
            /\ 0 <= k.pct_con_full[1] /\ k.pct_con_full[1] <= 100 * k.pct_con_full[2]

-----------------------------------------------------------------------------
(* Claims about the pipeline run *)

\* the call for a URL failed: the crawler raised, the check or the insert met a
\* database error, or the insert was rejected
Fallida(r) == r.crawl = "raise" \/ r.chk = "dberr" \/ r.ins \in {"dberr", "dup"}

\* C18: a run that reached its end started one call of
\* ejecutar_proceso_para_url for every URL of its list, whatever each call did,
\* and started the KPI phase after the last of them; while URLs remain no
\* failure of a call has ended the run.
C18_FailureDoesNotAbort ==
    /\ principal.pc = "fin"
          => /\ ncalls["p1"] = Len(principal.urls)
             /\ pc["p1"] = "idle"
             /\ kpi_run.estado # "none"
    /\ principal.pc = "fase1" => kpi_run.estado = "none"
    /\ principal.pc = "retorno" => (ncalls["p1"] = 0 /\ kpi_run.estado = "none")

\* the call for the first of two URLs ended by an exception of the crawler, the
\* call for the second one stored its rows, and the run reached its end
C18_Witness ==
    /\ principal.pc = "fin"
    /\ Len(principal.urls) = 2
    /\ previa["p1"].crawl = "raise"
    /\ Fallida(previa["p1"])
    /\ llamada["p1"].ins = "ok"
    /\ kpi_run.estado # "none"

\* today's raw rows exist
ProductosDeHoy == {tabla_crudos[i].id_catalogo : i \in FilasDeHoy(tabla_crudos, today)}

\* C19: at the end of a run, the aggregator was called with arguments it accepts
\* and ran, and the KPI table holds a row (today, id_catalogo) for every product
\* that has raw rows today.
C19_KpisAfterRun ==
    principal.pc = "fin" =>
        /\ kpi_run.estado # "TypeError"
        /\ \A id \in ProductosDeHoy :
              \E k \in tabla_kpis : k.fecha = today /\ k.id_catalogo = id

\* C20: what the caller gets from procesar_y_enriquecer_datos after an insert
\* that failed (database error, rejected duplicate) differs from what it gets
\* after an insert that committed, and likewise for ejecutar_generacion_kpis
\* after a merge that failed.
C20_WriteErrorSurfaced ==
    /\ \A p \in Procs :
          llamada[p].ins \in {"dberr", "dup"}
              => RetornoProcesar(llamada[p].ins) # RetornoProcesar("ok")
    /\ kpi_run.estado = "error_merge"
          => RetornoKpis(kpi_run.estado) # RetornoKpis("ok")

-----------------------------------------------------------------------------
(* Claims about the raw-offer table *)

\* tabla is the beginning of tabla2
EsPrefijo(tabla, tabla2) ==
    Len(tabla) <= Len(tabla2) /\ SubSeq(tabla2, 1, Len(tabla)) = tabla

\* C21: the insert of a batch either commits every row of the batch, after the
\* rows stored before, or leaves the table exactly as it was: when a row is
\* rejected or the database fails, no row of the batch stays.
C21_BatchAllOrNothing ==
    [][ \A p \in Procs :
          (pc[p] = "insert" /\ pc'[p] # "insert")
            => IF llamada'[p].ins = "ok"
               THEN /\ EsPrefijo(tabla_crudos, tabla_crudos')
                    /\ Len(tabla_crudos') = Len(tabla_crudos) + Len(datos[p].vendedores)
               ELSE tabla_crudos' = tabla_crudos ]_vars

\* the first call of a run inserted a batch whose second row repeats the
\* item_id of the first: the first row was accepted, the second rejected, and
\* the table is empty as before
C21_Witness ==
    /\ ncalls["p1"] = 1
    /\ llamada["p1"].ins = "dup"
    /\ llamada["p1"].chk = "no"
    /\ tabla_crudos = <<>>

\* C22: no step, of an ingestion call or of an aggregation run, changes or
\* removes a row the raw table holds: the table after the step begins with
\* the table before it.
C22_RawRowsWriteOnce == [][EsPrefijo(tabla_crudos, tabla_crudos')]_vars

\* rows were stored, a run aggregated them into the KPI table, and a later
\* ingestion stored more rows of the same date
C22_Witness ==
    /\ kpi_run.estado = "ok"
    /\ kpi_run.fecha = today
    /\ kpi_run.leidas # <<>>
    /\ tabla_kpis # {}
    /\ EsPrefijo(kpi_run.leidas, CrudasDeHoy)
    /\ Len(CrudasDeHoy) > Len(kpi_run.leidas)

\* the URL has no segment "p" followed by a catalog id
SinId(url) == \A i \in 1..(Len(url) - 1) : ~(url[i] = "p" /\ url[i + 1] \in CatalogIds)

\* the URL the run's current (or last) call of ejecutar_proceso_para_url got
UrlActual == principal.urls[ncalls["p1"]]

\* C23: a call for a URL from which no catalog id can be extracted is over at
\* once: it runs no existence check, invokes no crawler and inserts nothing.
C23_NoIdAborts ==
    (principal.pc \in {"fase1", "fin"} /\ ncalls["p1"] >= 1 /\ SinId(UrlActual))
        => /\ pc["p1"] = "idle"
           /\ llamada["p1"].id = None
           /\ llamada["p1"].chk = "-"
           /\ llamada["p1"].crawl = "-"
           /\ llamada["p1"].ins = "-"
           /\ datos["p1"] = NoDatos

\* the first URL of a run was processed and its rows stored, the second one
\* holds no catalog id: the run ended with the rows of the first
C23_Witness ==
    /\ principal.pc = "fin"
    /\ ncalls["p1"] = 2
    /\ SinId(UrlActual)
    /\ previa["p1"].ins = "ok"
    /\ tabla_crudos # <<>>
    /\ \A i \in 1..Len(tabla_crudos) : tabla_crudos[i].id_catalogo = previa["p1"].id

\* C24: a call whose crawl returned no offers is over without an insert: it
\* never reaches procesar_y_enriquecer_datos' transaction, and only a call that
\* holds offers does.
C24_NoOffersNoWrite ==
    \A p \in Procs :
        /\ llamada[p].crawl = "none"
              => (pc[p] = "idle" /\ llamada[p].ins = "-" /\ datos[p] = NoDatos)
        /\ pc[p] = "insert" => datos[p].vendedores # <<>>
        /\ llamada[p].ins # "-" => llamada[p].crawl = "offers"

\* the only call of a run found no row, crawled, got no offers, and the run
\* ended with the table empty
C24_Witness ==
    /\ principal.pc = "fin"
    /\ ncalls["p1"] = 1
    /\ llamada["p1"].chk = "no"
    /\ llamada["p1"].crawl = "none"
    /\ tabla_crudos = <<>>

\* C25: every row the raw table holds has a price that is a number greater
\* than 0.
C25_StoredPricePositive ==
    \A i \in 1..Len(tabla_crudos) :
        /\ tabla_crudos[i].precio # NaN
        /\ tabla_crudos[i].precio # SinPrecio
        /\ Valor(tabla_crudos[i].precio) > 0

\* C28: the rows of one (id_catalogo, fecha_extraccion) all hold the same
\* nombre_producto, categoria_principal and categoria_secundaria.
C28_SameMetadataPerProductAndDay ==
    \A i, j \in 1..Len(tabla_crudos) :
        (/\ tabla_crudos[i].id_catalogo = tabla_crudos[j].id_catalogo
         /\ tabla_crudos[i].fecha_extraccion = tabla_crudos[j].fecha_extraccion)
        => /\ tabla_crudos[i].nombre_producto = tabla_crudos[j].nombre_producto
           /\ tabla_crudos[i].categoria_principal = tabla_crudos[j].categoria_principal
           /\ tabla_crudos[i].categoria_secundaria = tabla_crudos[j].categoria_secundaria

\* the warning of line 151 was printed after k metadata fields had been read
Advertido(k) == \E i \in 1..Len(log) : log[i] = <<"warn", k>>

\* C29: after a failure while the product metadata is read, the crawl is in
\* the page loop: it requests page 1 next, and once it has left the loop it
\* has requested page 1 first; it returns without raising, with the parsed
\* offers of the pages it accumulated, and the metadata that was not read is
\* None (all three fields when the page could not be read, the two categories
\* when only they failed).
C29_MetadataFailureNotFatal ==
    (Advertido(0) \/ Advertido(1)) =>
        /\ cr_pc \notin {"launch", "setup", "meta"}
        /\ Requests = <<>> => (cr_pc = "fetch" /\ numero_pagina = 1)
        /\ Requests # <<>> => Requests[1] = 1
        /\ cr_meta.cat_principal = None /\ cr_meta.cat_secundaria = None
        /\ Advertido(0) => cr_meta.nombre = None
        /\ cr_pc = "done" =>
              /\ ~raised
              /\ vendedores_totales = OfertasServidas(numero_pagina - 1)

\* the product page could not be read and the crawl returned the offers of two
\* pages
C29_Witness ==
    /\ Advertido(0)
    /\ cr_pc = "done"
    /\ numero_pagina = 3
    /\ Len(vendedores_totales) >= 2
    /\ cr_meta = MetaNone

\* C30: the crawl leaves the page loop only after a page without items or a
\* fetch that failed: once it is past the loop, the last answer of the site
\* was an empty page, a timeout or a navigation error, and while the last
\* answer is a page with items the crawl is still pacing or fetching.
C30_StopsOnlyOnEmptyOrFailure ==
    served # <<>> =>
        LET ultima == served[Len(served)]
        IN (ultima.tipo = "page" /\ ultima.items # <<>>)
              => cr_pc \in {"pace", "cooldown", "fetch"}

\* the event loop keeps running the coroutine: some step of the crawl is taken
\* as long as one is possible
SpecCrawlFair == SpecCrawl /\ WF_vars(NextCrawl)

\* the crawl returns or raises in the end (the site serves items on the pages
\* 1..MaxPages at most)
CrawlReturnsEventually == <>(cr_pc = "done")

-----------------------------------------------------------------------------
(* Claims about the KPI table and the installment parser *)

\* C26: the KPI table never holds two rows of one (fecha, id_catalogo); the
\* query of a run gives one row for each product with rows of the run's date
\* and none for another product, and after a run that succeeded each of those
\* products has one stored row of that date.
C26_OneKpiRowPerProductAndDay ==
    /\ \A a, b \in tabla_kpis : MismaClave(a, b) => a = b
    /\ kpi_run.estado \in {"ok", "error_merge"} =>
          /\ {k.id_catalogo : k \in Calculadas} = ProductosLeidos
          /\ \A id \in ProductosLeidos :
                Cardinality({k \in Calculadas : k.id_catalogo = id}) = 1
    /\ kpi_run.estado = "ok" =>
          \A id \in ProductosLeidos : Cardinality(KpisDe(id)) = 1

\* a run over the rows of two products succeeded on a date for which one of
\* them had a stored row with other values
C26_Witness ==
    /\ kpi_run.estado = "ok"
    /\ Cardinality(ProductosLeidos) = 2
    /\ \E viejo \in kpi_run.antes :
          /\ viejo.fecha = kpi_run.fecha
          /\ viejo \notin tabla_kpis

\* the places of a text where one of the two phrasings starts, each with the
\* number it names: <<place, number>>
EsRun(s, a, b, conj) == \A k \in a..(b - 1) : s[k] \in conj

Ocurrencias(s) ==
    LET P == 1..(Len(s) + 1)
    IN { <<i, Entero(s, a, b)>> : <<i, a, b>> \in
           { t \in (1..Len(s)) \X P \X P :
               /\ t[2] < t[3]
               /\ EsRun(s, t[2], t[3], CifrasTexto)
               /\ \E c \in t[3]..Len(s) :
                     /\ EsRun(s, t[3], c, {" "})
                     /\ Minuscula(s[c]) = "cuotas"
                     /\ \/ /\ Minuscula(s[t[1]]) = "mismo precio en"
                           /\ t[1] < t[2]
                           /\ EsRun(s, t[1] + 1, t[2], {" "})
                        \/ /\ t[1] = t[2]
                           /\ \E d \in (c + 1)..Len(s) : \E f \in (d + 1)..Len(s) :
                                 /\ EsRun(s, c + 1, d, {" "})
                                 /\ Minuscula(s[d]) = "sin"
                                 /\ EsRun(s, d + 1, f, {" "})
                                 /\ Minuscula(s[f]) = "interés" } }

\* C27: the function returns 0 for a value that is no str, for the empty text
\* and for a text in which neither phrasing occurs; otherwise it returns the
\* number of the occurrence that starts first.  "Mismo precio en 6 cuotas" and
\* "6 cuotas sin interés" both give 6.
C27_InstallmentsParsed ==
    cuotas.pc = "hecho" =>
        LET s == cuotas.texto.toks
            occ == Ocurrencias(s)
            primeras == {o \in occ : \A q \in occ : o[1] <= q[1]}
        IN /\ (cuotas.texto.tipo # "str" \/ occ = {}) => cuotas.resultado = 0
           /\ (cuotas.texto.tipo = "str" /\ occ # {}) =>
                 \E o \in primeras : cuotas.resultado = o[2]
           /\ s = <<"Mismo precio en", " ", "6", " ", "cuotas">> => cuotas.resultado = 6
           /\ s = <<"6", " ", "cuotas", " ", "sin", " ", "interés">> => cuotas.resultado = 6

\* the function returned for a text in which the two phrasings occur with
\* different numbers
C27_Witness ==
    /\ cuotas.pc = "hecho"
    /\ \E o, q \in Ocurrencias(cuotas.texto.toks) :
          /\ o[1] < q[1]
          /\ o[2] # q[2]
          /\ cuotas.resultado = o[2]
          /\ Minuscula(cuotas.texto.toks[o[1]]) # Minuscula(cuotas.texto.toks[q[1]])

-----------------------------------------------------------------------------
(* Further claims about the crawler *)

\* the page requests and the pauses of the crawl, in order
Pasos == SelectSeq(log, LAMBDA e : e[1] \in {"req", "sleep", "cooldown"})

\* C31: the entry after the request of a page that gave items is the base
\* pause of that page; the entry after the base pause of page n is the long
\* pause of page n when n is a multiple of 5 and the request of page n + 1
\* otherwise; a long pause is of a multiple of 5, follows the base pause of
\* its page and is followed by the request of the next page; a request other
\* than the first follows a pause.
C31_PacingOrder ==
    \A i \in 1..Len(Pasos) :
        LET e == Pasos[i]
            n == e[2]
            hay == i < Len(Pasos)
        IN /\ e[1] = "req" =>
                /\ hay => Pasos[i + 1] = <<"sleep", n>>
                /\ IF i = 1 THEN n = 1
                   ELSE Pasos[i - 1] \in {<<"sleep", n - 1>>, <<"cooldown", n - 1>>}
           /\ e[1] = "sleep" =>
                /\ Pasos[i - 1] = <<"req", n>>
                /\ hay => Pasos[i + 1] = IF n % 5 = 0 THEN <<"cooldown", n>>
                                         ELSE <<"req", n + 1>>
           /\ e[1] = "cooldown" =>
                /\ n % 5 = 0
                /\ Pasos[i - 1] = <<"sleep", n>>
                /\ hay => Pasos[i + 1] = <<"req", n + 1>>

\* the crawl made the long pause after page 5 and requested page 6
C31_Witness ==
    \E i \in 1..Len(Pasos) :
        /\ i > 2 /\ Pasos[i] = <<"req", 6>>
        /\ Pasos[i - 1] = <<"cooldown", 5>>
        /\ Pasos[i - 2] = <<"sleep", 5>>

-----------------------------------------------------------------------------
(* Claims about the path from the page to the KPI row *)

\* the score of a level of the site
Puntaje(nivel) ==
    CASE nivel = "5_green" -> 5
      [] nivel = "4_light_green" -> 4
      [] nivel = "3_yellow" -> 3
      [] OTHER -> 2

\* the items the site served, page after page
ItemsServidos == Concat([i \in 1..Len(served) |-> served[i].items])

RECURSIVE SumaPuntajes(_)
SumaPuntajes(items) ==
    IF items = <<>> THEN 0 ELSE Puntaje(Head(items).rep) + SumaPuntajes(Tail(items))

\* the served items whose rows the last run read for product id
ItemsLeidos(id) ==
    SelectSeq(ItemsServidos,
              LAMBDA it : \E r \in Leidas : r.id_catalogo = id /\ r.item_id = it.id)

\* C32: when every offer the site served was stored and a run succeeded, the
\* reputation column of the KPI row of each product is the mean, over the
\* offers of the product, of 5 for '5_green', 4 for '4_light_green', 3 for
\* '3_yellow' and 2 for any other level or none; the mean lies in [2, 5].
C32_ReputationScoreEndToEnd ==
    (kpi_run.estado = "ok" /\ Len(ItemsServidos) = Len(tabla_crudos)) =>
        \A id \in ProductosLeidos : \A k \in KpisDe(id) :
            /\ k.reputacion_promedio_valor =
                  Frac(SumaPuntajes(ItemsLeidos(id)), Len(ItemsLeidos(id)))
            /\ 2 * k.reputacion_promedio_valor[2] <= k.reputacion_promedio_valor[1]
            /\ k.reputacion_promedio_valor[1] <= 5 * k.reputacion_promedio_valor[2]

\* a run over the two offers of one page, one of a known level and one
\* without a level: the mean is (4 + 2) / 2
C32_Witness ==
    /\ kpi_run.estado = "ok"
    /\ Len(ItemsServidos) = Len(tabla_crudos)
    /\ \E id \in ProductosLeidos :
          /\ Len(ItemsLeidos(id)) = 2
          /\ ItemsLeidos(id)[1].rep = "4_light_green"
          /\ ItemsLeidos(id)[2].rep = None
          /\ \E k \in KpisDe(id) : k.reputacion_promedio_valor = <<3, 1>>

-----------------------------------------------------------------------------
(* Further claims about the KPI aggregator *)

\* the KPI rows of the dates other than fecha
OtrasFechas(tabla, fecha) == {k \in tabla : k.fecha # fecha}

\* C33: no step changes the KPI rows of a date other than the current one: a
\* run, whether it succeeds or fails, leaves them as they were, every row it
\* adds or changes is keyed by the current date, and that row counts the raw
\* rows of the current date of its product only.
C33_OtherDatesUntouched ==
    [][ /\ OtrasFechas(tabla_kpis', today) = OtrasFechas(tabla_kpis, today)
        /\ \A k \in tabla_kpis' \ tabla_kpis :
              /\ k.fecha = today
              /\ k.n_competidores =
                    Cardinality({i \in 1..Len(tabla_crudos) :
                                   /\ tabla_crudos[i].fecha_extraccion = today
                                   /\ tabla_crudos[i].id_catalogo = k.id_catalogo}) ]_vars

\* a run of the second day succeeded over a table that held a row of the first
\* day and raw rows of both days: the row of the first day is still there
C33_Witness ==
    /\ kpi_run.estado = "ok"
    /\ kpi_run.fecha = 2
    /\ \E k \in kpi_run.antes : k.fecha = 1 /\ k \in tabla_kpis
    /\ \E k \in tabla_kpis : k.fecha = 2
    /\ \E i \in 1..Len(tabla_crudos) : tabla_crudos[i].fecha_extraccion = 1

-----------------------------------------------------------------------------
(* Further claims about the crawler's metadata and result *)

\* the product pages the crawl read whole
ProductoLeido == {log[i][2] : i \in {j \in 1..Len(log) : log[j][1] = "producto"}}

\* C34: after the product page was read, with camino the names of the category
\* path the crawler took, the primary category is the first name and the
\* secondary the last one, the secondary equals the primary when there is one
\* name, and both are None when there is none.  When every entry of
\* pathFromRoot has a name these are its first and its last entry.
C34_CategoriesFromPath ==
    \A estado \in ProductoLeido :
        LET camino == nombres_categorias(estado)
        IN /\ camino = <<>> =>
                cr_meta.cat_principal = None /\ cr_meta.cat_secundaria = None
           /\ camino # <<>> =>
                /\ cr_meta.cat_principal = camino[1]
                /\ cr_meta.cat_secundaria = camino[Len(camino)]
           /\ Len(camino) = 1 => cr_meta.cat_secundaria = cr_meta.cat_principal
           /\ (estado.path # <<>> /\ \A i \in 1..Len(estado.path) : estado.path[i] # None) =>
                /\ cr_meta.cat_principal = estado.path[1]
                /\ cr_meta.cat_secundaria = estado.path[Len(estado.path)]

\* the crawl returned after a product page with a path of three names
C34_Witness ==
    /\ cr_pc = "done"
    /\ \E estado \in ProductoLeido : estado.path = <<"a", "b", "c">>
    /\ cr_meta.cat_principal = "a"
    /\ cr_meta.cat_secundaria = "c"

-----------------------------------------------------------------------------
(* Further claims about the ingestion guard *)

\* C35: a call whose existence query failed with a database error goes on to
\* the crawl: it is about to crawl or has crawled, also when rows of its
\* (id_catalogo, date) were stored before it started.
C35_GuardFailsOpen ==
    \A p \in Procs :
        llamada[p].chk = "dberr" =>
            \/ pc[p] = "crawl"
            \/ llamada[p].crawl \in {"raise", "none", "offers"}

\* rows of the product and the date were stored, the query of the call failed
\* and the call crawled
C35_Witness ==
    \E p \in Procs :
        /\ llamada[p].chk = "dberr"
        /\ llamada[p].pre
        /\ ExisteFila(tabla_crudos, llamada[p].id, llamada[p].fecha)
        /\ llamada[p].crawl = "offers"

\* the offers of one crawl hold the same item_id twice
Repetida(vendedores) ==
    \E i, j \in 1..Len(vendedores) :
        i < j /\ vendedores[i].item_id = vendedores[j].item_id

\* C36: the insert of a batch that holds an item_id twice stores no row and
\* ends with an error, so no row of the product and the date exists after it
\* unless one existed before; and a later call for the same product and date
\* that finds no such row crawls again.
C36_RepeatedOfferRejectsBatch ==
    /\ [][ \A p \in Procs :
             (pc[p] = "insert" /\ pc'[p] = "idle" /\ Repetida(datos[p].vendedores)) =>
                 /\ tabla_crudos' = tabla_crudos
                 /\ llamada'[p].ins \in {"dup", "dberr"}
                 /\ ExisteFila(tabla_crudos', llamada[p].id, today)
                       = ExisteFila(tabla_crudos, llamada[p].id, today) ]_vars
    /\ [](\A p \in Procs :
             ( /\ previa[p].ins = "dup"
               /\ llamada[p].id = previa[p].id
               /\ llamada[p].fecha = previa[p].fecha
               /\ llamada[p].chk # "-"
               /\ ~ExisteFila(tabla_crudos, llamada[p].id, llamada[p].fecha) )
             => /\ llamada[p].chk \in {"no", "dberr"}
                /\ pc[p] = "crawl" \/ llamada[p].crawl \in {"raise", "none", "offers"})

\* the first call of the run got the same offer twice and stored nothing; the
\* second call, for the same product on the same day, crawled again
C36_Witness ==
    /\ tabla_crudos = <<>>
    /\ previa["p1"].ins = "dup"
    /\ llamada["p1"].id = previa["p1"].id
    /\ llamada["p1"].fecha = previa["p1"].fecha
    /\ llamada["p1"].chk = "no"
    /\ llamada["p1"].crawl = "offers"

\* the item ids of the offers in the list
IdsAcumulados == {vendedores_totales[i].item_id : i \in 1..Len(vendedores_totales)}

\* C37: in every state of a crawl the list is the parsed offers of the pages
\* 1..numero_pagina - 1 the site served, whole and in page order; a page in
\* which an offer failed to parse is not among them and none of its offers is
\* in the list.
C37_ListIsWholePages ==
    cr_pc # "off" =>
        /\ numero_pagina - 1 <= Len(served)
        /\ \A i \in 1..(numero_pagina - 1) : BuenaPagina(served[i])
        /\ vendedores_totales = OfertasServidas(numero_pagina - 1)
        /\ \A i \in 1..Len(served) :
              PaginaLanza(served[i]) =>
                  /\ i = numero_pagina
                  /\ \A j \in 1..Len(served[i].items) :
                        served[i].items[j].id \notin IdsAcumulados

\* the crawl returned the offers of two pages after a third page whose second
\* offer failed to parse
C37_Witness ==
    /\ cr_pc = "done"
    /\ numero_pagina = 3
    /\ Len(served) = 3
    /\ PaginaLanza(served[3])
    /\ ~PrecioLanza(served[3].items[1])
    /\ Len(vendedores_totales) >= 2

\* C39: the rows a call committed carry the date its check queried.
C39_RowsCarryCheckedDate ==
    \A p \in Procs :
        llamada[p].ins = "ok" => llamada[p].fins = llamada[p].fecha

-----------------------------------------------------------------------------
(* Claims about the KPI row's own columns *)

\* the offers placed before r among the rows of its product: a lower price,
\* or the same price and an item_id that comes first as text
Delante(r, id) ==
    {s \in Grupo(id) :
        \/ PrecioMenor(s.precio, r.precio)
        \/ (s.precio = r.precio /\ CadenaMenor(Digitos(s.item_id), Digitos(r.item_id)))}

\* C38: when rows of the group have our seller, nuestro_precio and
\* posicion_precio are the price and the position of one of them: the one
\* placed after every other row of ours, whose price no row of ours exceeds
\* (in the order of the column's type, where NaN comes last).
C38_OurPriceAndRankSameRow ==
    kpi_run.estado = "ok" =>
        \A id \in ProductosLeidos : \A k \in KpisDe(id) :
            Nuestras(id) # {} =>
                \E r \in Nuestras(id) :
                    /\ k.nuestro_precio = r.precio
                    /\ k.posicion_precio = Num(1 + Cardinality(Delante(r, id)))
                    /\ \A s \in Nuestras(id) :
                          /\ Cardinality(Delante(s, id)) <= Cardinality(Delante(r, id))
                          /\ ~PrecioMenor(r.precio, s.precio)

\* a run over three rows of ours at two prices: our price is 100 and our
\* position is 3
C38_Witness ==
    /\ kpi_run.estado = "ok"
    /\ \E id \in ProductosLeidos : \E k \in KpisDe(id) :
          /\ Cardinality(Nuestras(id)) = 3
          /\ k.nuestro_precio = Num(100)
          /\ k.posicion_precio = Num(3)
          /\ k.precio_minimo = Num(80)

\* x <= y for two stored values that are numbers (whole or n/d); a comparison
\* with NaN or NULL is not true
MenorIgual(x, y) ==
    /\ x \notin {NaN, Null} /\ y \notin {NaN, Null}
    /\ LET n(v) == v[1]
           d(v) == IF Len(v) = 2 THEN v[2] ELSE 1
       IN n(x) * d(y) <= n(y) * d(x)

====
